---- MODULE Spec2Model ----
(***************************************************************************)
(* A model of websockets.Connection (src/websockets/connection.go): the    *)
(* bounded outbound queue c.send, the one-shot shutdown signal c.closed,   *)
(* closeOnce, the transport c.conn, the two pumps, Upgrade, and the        *)
(* callers of SendBinary, Close and IsClosed.                              *)
(*                                                                         *)
(* Go semantics used throughout:                                           *)
(*   - a select picks any one of its ready cases; default only when none   *)
(*     is ready;                                                           *)
(*   - a send on a closed channel is ready and panics;                     *)
(*   - a receive on a closed channel yields the buffered values first and  *)
(*     then the zero value with ok = false;                                *)
(*   - close of a closed channel panics;                                   *)
(*   - deferred calls run when the function returns, last deferred first,  *)
(*     on the goroutine of the function.                                   *)
(* A panic ends the goroutine it happens in; the other goroutines go on    *)
(* (a server that recovers), so what follows a panic is still checked.     *)
(*                                                                         *)
(* The transport (gorilla *ws.Conn) is the environment: a read or a write  *)
(* on an open transport succeeds or fails as the peer and the network      *)
(* decide; on a transport closed locally a read fails and a write that     *)
(* reaches the network fails.  The handler returns.                        *)
(*                                                                         *)
(* Specifications:                                                         *)
(*   Spec      the program: Upgrade is called; on a successful handshake   *)
(*             it builds the Connection and runs its two deferred calls,   *)
(*             writePump and then readPump, on its own goroutine before it *)
(*             returns; the callers then hold the Connection and call      *)
(*             SendBinary, Close and IsClosed.  The peer sends data frames *)
(*             while the transport is open.                                *)
(*   SpecFair  the same with the scheduler's fairness, for the progress    *)
(*             properties.                                                 *)
(*   SpecAll   the program with every step of the methods and the pumps    *)
(*             allowed; it has the same reachable states as Spec.          *)
(***************************************************************************)
EXTENDS Integers, Sequences, FiniteSets, TLC

\* ---------------------------------------------------------------- bounds
\* Capacity of c.send in the model (make(chan []byte, 256) in the source).
QueueCap == 2
\* Number of SendBinary calls issued over a run; the payloads are 1..MaxSends.
MaxSends == 3
\* Seconds that pass in one Tick of the model's clock.
TickStep == 5
\* Number of data frames the peer sends over a run.
MaxFrames == 2
\* pongWait in seconds (10 * time.Second).
pongWait == 10

\* ------------------------------------------------------------- processes
Callers == {"c1", "c2"}
RP == "readPump"
WP == "writePump"
Procs == Callers \cup {RP, WP}
\* The goroutines that can run Close(): callers (directly or from
\* SendBinary's default branch) and readPump (its deferred call).
Closers == Callers \cup {RP}

\* The payloads of the peer's data frames.
Frames == {1, 2}

NoDeadline == -1
NoCall == [proc |-> "-", op |-> "-", ret |-> "-"]
Returned(p, o, r) == [proc |-> p, op |-> o, ret |-> r]
Nil == 0

VARIABLES
    closed,      \* c.closed has been closed (the shutdown signal fired)
    send,        \* the buffer of c.send, head first
    sendClosed,  \* c.send has been closed
    onceDone,    \* closeOnce's done flag
    onceMu,      \* closeOnce's mutex: the process holding it, or "free"
    connCloseBy, \* c.conn.Close() executions, by "Close" and by "writePump"
    deadline,    \* seconds left until the read deadline, or NoDeadline
    tickPending, \* ticker.C holds a tick
    up,          \* Upgrade's position
    pc,          \* each process's position
    op,          \* the operation a caller inside Close() came from, else "-"
    last,        \* the call that returned last: [proc, op, ret]
    nextMsg,     \* the payload of the next SendBinary call
    wpMsg,       \* writePump's local variable message
    wpN,         \* iterations left in writePump's range len(c.send)
    teardown,    \* executions of each statement of Close()'s function
    accepted,    \* history: payloads of the SendBinary calls that returned nil
    written,     \* history: payloads passed to w.Write, in order
    lateWrites,  \* history: kinds of write attempted on a closed transport
    rpMsg,       \* readPump's local variable message
    handler,     \* c.handler != nil
    wire,        \* the peer's data frames not yet returned by ReadMessage
    sent,        \* history: the data frames the peer sent on the open transport
    handled      \* history: the payloads passed to c.handler, in order

vars == <<closed, send, sendClosed, onceDone, onceMu, connCloseBy, deadline,
          tickPending, up, pc, op, last, nextMsg, wpMsg, wpN, teardown,
          accepted, written, lateWrites, rpMsg, handler, wire, sent, handled>>

\* --------------------------------------------------------------- helpers
ConnCloses == connCloseBy["Close"] + connCloseBy["writePump"]
ConnClosed == ConnCloses > 0

\* case c.send <- data: ready when there is room, or (panicking) when closed
SendReady == sendClosed \/ Len(send) < QueueCap
\* case message, ok := <-c.send
RecvReady == Len(send) > 0 \/ sendClosed
\* case <-c.closed
ClosedReady == closed

\* ws.IsUnexpectedCloseError(err, CloseGoingAway, CloseAbnormalClosure): true
\* only for a *CloseError whose code is not one of the listed codes.
IsUnexpectedCloseError(e) == e = "closeOther"

\* "readLimit" is ws.ErrReadLimit: a frame longer than maxMessageSize.
ReadErrors == {"closeGoingAway", "closeAbnormal", "closeOther", "timeout",
               "netError", "readLimit"}

\* The state built by Upgrade's composite literal; handler is Upgrade's
\* argument.
Constructed ==
    /\ closed = FALSE
    /\ send = <<>>
    /\ sendClosed = FALSE
    /\ onceDone = FALSE
    /\ onceMu = "free"
    /\ connCloseBy = [a \in {"Close", "writePump"} |-> 0]
    /\ deadline = NoDeadline
    /\ tickPending = FALSE
    /\ op = [p \in Callers |-> "-"]
    /\ last = NoCall
    /\ nextMsg = 1
    /\ wpMsg = Nil
    /\ wpN = 0
    /\ teardown = [s \in {"signal", "queue", "transport"} |-> 0]
    /\ accepted = <<>>
    /\ written = <<>>
    /\ lateWrites = {}
    /\ rpMsg = Nil
    /\ wire = <<>>
    /\ sent = <<>>
    /\ handled = <<>>

\* ------------------------------------------------------------------ Close
\* Mutant of CloseCall: Close() runs its function without closeOnce.
CloseCallNoOnce(p) ==
    /\ up = "returned"
    /\ pc[p] = "idle"
    /\ pc' = [pc EXCEPT ![p] = "close_signal"]
    /\ op' = [op EXCEPT ![p] = "Close"]
    /\ last' = last
    /\ UNCHANGED <<closed, send, sendClosed, onceDone, onceMu, connCloseBy,
                   deadline, tickPending, up, nextMsg, wpMsg, wpN,
                   teardown, accepted, written, lateWrites, rpMsg,
                   handler, wire, sent, handled>>

\* c.closeOnce.Do(...): the fast path of sync.Once (done already set: return).
CloseCall(p) ==
    /\ up = "returned"
    /\ pc[p] = "idle"
    /\ IF onceDone
         THEN /\ last' = Returned(p, "Close", "void")
              /\ UNCHANGED <<pc, op>>
         ELSE /\ pc' = [pc EXCEPT ![p] = "once_lock"]
              /\ op' = [op EXCEPT ![p] = "Close"]
              /\ last' = last
    /\ UNCHANGED <<closed, send, sendClosed, onceDone, onceMu, connCloseBy,
                   deadline, tickPending, up, nextMsg, wpMsg, wpN,
                   teardown, accepted, written, lateWrites, rpMsg,
                   handler, wire, sent, handled>>

\* Where a process continues when its Close() returns: readPump ends, a
\* caller is back from Close(), or from SendBinary with ErrorBufferFull.
AfterClose(p) == IF p = RP THEN "done" ELSE "idle"
LastAfterClose(p) ==
    IF p \in Callers
      THEN Returned(p, op[p], IF op[p] = "SendBinary" THEN "ErrorBufferFull" ELSE "void")
      ELSE last
OpAfterClose(p) == IF p \in Callers THEN [op EXCEPT ![p] = "-"] ELSE op

\* sync.Once.doSlow: take the mutex, look at done again.
OnceLock(p) ==
    /\ pc[p] = "once_lock"
    /\ onceMu = "free"
    /\ IF onceDone
         THEN /\ pc' = [pc EXCEPT ![p] = AfterClose(p)]
              /\ last' = LastAfterClose(p)
              /\ op' = OpAfterClose(p)
              /\ onceMu' = onceMu
         ELSE /\ pc' = [pc EXCEPT ![p] = "close_signal"]
              /\ onceMu' = p
              /\ UNCHANGED <<last, op>>
    /\ UNCHANGED <<closed, send, sendClosed, onceDone, connCloseBy, deadline,
                   tickPending, up, nextMsg, wpMsg, wpN, teardown,
                   accepted, written, lateWrites, rpMsg,
                   handler, wire, sent, handled>>

\* Mutant of CloseSignal: the function closes the queue first; the signal is
\* left for the next statement.
CloseSignalQueueFirst(p) ==
    /\ pc[p] = "close_signal"
    /\ sendClosed' = TRUE
    /\ teardown' = [teardown EXCEPT !["queue"] = @ + 1]
    /\ pc' = [pc EXCEPT ![p] = "close_queue"]
    /\ UNCHANGED <<closed, send, onceDone, onceMu, connCloseBy, deadline,
                   tickPending, up, op, last, nextMsg, wpMsg, wpN,
                   accepted, written, lateWrites, rpMsg,
                   handler, wire, sent, handled>>

\* close(c.closed); closing a closed channel panics.
CloseSignal(p) ==
    /\ pc[p] = "close_signal"
    /\ IF closed
         THEN /\ pc' = [pc EXCEPT ![p] = "panic_close"]
              /\ UNCHANGED <<closed, teardown>>
         ELSE /\ closed' = TRUE
              /\ teardown' = [teardown EXCEPT !["signal"] = @ + 1]
              /\ pc' = [pc EXCEPT ![p] = "close_queue"]
    /\ UNCHANGED <<send, sendClosed, onceDone, onceMu, connCloseBy, deadline,
                   tickPending, up, op, last, nextMsg, wpMsg, wpN,
                   accepted, written, lateWrites, rpMsg,
                   handler, wire, sent, handled>>

\* close(c.send); closing a closed channel panics.
CloseQueue(p) ==
    /\ pc[p] = "close_queue"
    /\ IF sendClosed
         THEN /\ pc' = [pc EXCEPT ![p] = "panic_close"]
              /\ UNCHANGED <<sendClosed, teardown>>
         ELSE /\ sendClosed' = TRUE
              /\ teardown' = [teardown EXCEPT !["queue"] = @ + 1]
              /\ pc' = [pc EXCEPT ![p] = "close_conn"]
    /\ UNCHANGED <<closed, send, onceDone, onceMu, connCloseBy, deadline,
                   tickPending, up, op, last, nextMsg, wpMsg, wpN,
                   accepted, written, lateWrites, rpMsg,
                   handler, wire, sent, handled>>

\* Mutant of CloseConn: the function calls c.Close() where it should call
\* c.conn.Close(); the inner call waits for closeOnce, which the outer call
\* holds.
CloseConnReentrant(p) ==
    /\ pc[p] = "close_conn"
    /\ onceMu = "free"
    /\ UNCHANGED vars

\* c.conn.Close()
CloseConn(p) ==
    /\ pc[p] = "close_conn"
    /\ connCloseBy' = [connCloseBy EXCEPT !["Close"] = @ + 1]
    /\ teardown' = [teardown EXCEPT !["transport"] = @ + 1]
    /\ pc' = [pc EXCEPT ![p] = "once_done"]
    /\ UNCHANGED <<closed, send, sendClosed, onceDone, onceMu, deadline,
                   tickPending, up, op, last, nextMsg, wpMsg, wpN,
                   accepted, written, lateWrites, rpMsg,
                   handler, wire, sent, handled>>

\* doSlow's deferred o.done.Store(1) and o.m.Unlock(); Close() returns.
OnceDone(p) ==
    /\ pc[p] = "once_done"
    /\ onceDone' = TRUE
    /\ onceMu' = "free"
    /\ pc' = [pc EXCEPT ![p] = AfterClose(p)]
    /\ last' = LastAfterClose(p)
    /\ op' = OpAfterClose(p)
    /\ UNCHANGED <<closed, send, sendClosed, connCloseBy, deadline,
                   tickPending, up, nextMsg, wpMsg, wpN, teardown,
                   accepted, written, lateWrites, rpMsg,
                   handler, wire, sent, handled>>

\* --------------------------------------------------------------- IsClosed
\* Mutant of IsClosed: the two branches of the select return each other's
\* value.
IsClosedInverted(p) ==
    /\ up = "returned"
    /\ pc[p] = "idle"
    /\ last' = Returned(p, "IsClosed", IF closed THEN "false" ELSE "true")
    /\ UNCHANGED <<closed, send, sendClosed, onceDone, onceMu, connCloseBy,
                   deadline, tickPending, up, pc, op, nextMsg, wpMsg, wpN,
                   teardown, accepted, written, lateWrites, rpMsg,
                   handler, wire, sent, handled>>

\* select { case <-c.closed: return true; default: return false }
IsClosed(p) ==
    /\ up = "returned"
    /\ pc[p] = "idle"
    /\ last' = Returned(p, "IsClosed", IF closed THEN "true" ELSE "false")
    /\ UNCHANGED <<closed, send, sendClosed, onceDone, onceMu, connCloseBy,
                   deadline, tickPending, up, pc, op, nextMsg, wpMsg, wpN,
                   teardown, accepted, written, lateWrites, rpMsg,
                   handler, wire, sent, handled>>

\* ------------------------------------------------------------- SendBinary
\* A caller holding the Connection calls SendBinary(data); the payloads of
\* successive calls are 1, 2, ...
SendBinaryCall(p) ==
    /\ up = "returned"
    /\ pc[p] = "idle"
    /\ nextMsg <= MaxSends

\* case c.send <- data, on an open channel with room: return nil
SendBinarySend(p) ==
    /\ SendBinaryCall(p)
    /\ SendReady
    /\ ~sendClosed
    /\ send' = Append(send, nextMsg)
    /\ accepted' = Append(accepted, nextMsg)
    /\ nextMsg' = nextMsg + 1
    /\ last' = Returned(p, "SendBinary", "nil")
    /\ UNCHANGED <<closed, sendClosed, onceDone, onceMu, connCloseBy, deadline,
                   tickPending, up, pc, op, wpMsg, wpN, teardown, written,
                   lateWrites, rpMsg,
                   handler, wire, sent, handled>>

\* case c.send <- data, on a closed channel: panic (send on closed channel)
SendBinaryPanic(p) ==
    /\ SendBinaryCall(p)
    /\ SendReady
    /\ sendClosed
    /\ pc' = [pc EXCEPT ![p] = "panic_send"]
    /\ nextMsg' = nextMsg + 1
    /\ last' = Returned(p, "SendBinary", "panic")
    /\ UNCHANGED <<closed, send, sendClosed, onceDone, onceMu, connCloseBy,
                   deadline, tickPending, up, op, wpMsg, wpN, teardown,
                   accepted, written, lateWrites, rpMsg,
                   handler, wire, sent, handled>>

\* case <-c.closed: return ErrorConnectionClosed
SendBinaryClosed(p) ==
    /\ SendBinaryCall(p)
    /\ ClosedReady
    /\ nextMsg' = nextMsg + 1
    /\ last' = Returned(p, "SendBinary", "ErrorConnectionClosed")
    /\ UNCHANGED <<closed, send, sendClosed, onceDone, onceMu, connCloseBy,
                   deadline, tickPending, up, pc, op, wpMsg, wpN, teardown,
                   accepted, written, lateWrites, rpMsg,
                   handler, wire, sent, handled>>

\* default: c.Close() is entered (Once's fast path); ErrorBufferFull is
\* returned when Close() returns.
SendBinaryDefault(p) ==
    /\ SendBinaryCall(p)
    /\ ~SendReady
    /\ ~ClosedReady
    /\ nextMsg' = nextMsg + 1
    /\ IF onceDone
         THEN /\ last' = Returned(p, "SendBinary", "ErrorBufferFull")
              /\ UNCHANGED <<pc, op>>
         ELSE /\ pc' = [pc EXCEPT ![p] = "once_lock"]
              /\ op' = [op EXCEPT ![p] = "SendBinary"]
              /\ last' = last
    /\ UNCHANGED <<closed, send, sendClosed, onceDone, onceMu, connCloseBy,
                   deadline, tickPending, up, wpMsg, wpN, teardown,
                   accepted, written, lateWrites, rpMsg,
                   handler, wire, sent, handled>>

SendBinary(p) ==
    \/ SendBinarySend(p)
    \/ SendBinaryPanic(p)
    \/ SendBinaryClosed(p)
    \/ SendBinaryDefault(p)

\* --------------------------------------------------------------- readPump
\* SetReadLimit, SetReadDeadline(now + pongWait), SetPongHandler.  On a
\* transport already closed SetReadDeadline fails and sets nothing.
RPStart ==
    /\ pc[RP] = "start"
    /\ deadline' = IF ConnClosed THEN deadline ELSE pongWait
    /\ pc' = [pc EXCEPT ![RP] = "read"]
    /\ UNCHANGED <<closed, send, sendClosed, onceDone, onceMu, connCloseBy,
                   tickPending, up, op, last, nextMsg, wpMsg, wpN,
                   teardown, accepted, written, lateWrites, rpMsg,
                   handler, wire, sent, handled>>

\* The peer sends a data frame with payload f, longer than maxMessageSize
\* when big; it waits in the transport until ReadMessage takes it.
PeerSend(f, big) ==
    /\ up \in {"deferred", "returned"}
    /\ ~ConnClosed
    /\ Len(sent) < MaxFrames
    /\ wire' = Append(wire, [payload |-> f, big |-> big])
    /\ sent' = Append(sent, [payload |-> f, big |-> big])
    /\ UNCHANGED <<closed, send, sendClosed, onceDone, onceMu, connCloseBy,
                   deadline, tickPending, up, pc, op, last, nextMsg, wpMsg,
                   wpN, teardown, accepted, written, lateWrites, rpMsg,
                   handler, handled>>

\* c.conn.ReadMessage() returns the next data frame (err == nil).
RPReadData ==
    /\ pc[RP] = "read"
    /\ ~ConnClosed
    /\ deadline > 0
    /\ wire # <<>>
    /\ ~Head(wire).big
    /\ rpMsg' = Head(wire).payload
    /\ wire' = Tail(wire)
    /\ pc' = [pc EXCEPT ![RP] = "handle"]
    /\ UNCHANGED <<closed, send, sendClosed, onceDone, onceMu, connCloseBy,
                   deadline, tickPending, up, op, last, nextMsg, wpMsg,
                   wpN, teardown, accepted, written, lateWrites,
                   handler, sent, handled>>

\* if c.handler != nil { c.handler(message) }: the handler is called and
\* returns, or there is none and the frame is dropped; the loop reads again.
RPHandle ==
    /\ pc[RP] = "handle"
    /\ handled' = IF handler THEN Append(handled, rpMsg) ELSE handled
    /\ rpMsg' = Nil
    /\ pc' = [pc EXCEPT ![RP] = "read"]
    /\ UNCHANGED <<closed, send, sendClosed, onceDone, onceMu, connCloseBy,
                   deadline, tickPending, up, op, last, nextMsg, wpMsg,
                   wpN, teardown, accepted, written, lateWrites,
                   handler, wire, sent>>

\* A pong arrives while ReadMessage blocks: the pong handler resets the
\* read deadline to now + pongWait.
RPPong ==
    /\ pc[RP] = "read"
    /\ ~ConnClosed
    /\ deadline > 0
    /\ deadline' = pongWait
    /\ UNCHANGED <<closed, send, sendClosed, onceDone, onceMu, connCloseBy,
                   tickPending, up, pc, op, last, nextMsg, wpMsg, wpN,
                   teardown, accepted, written, lateWrites, rpMsg,
                   handler, wire, sent, handled>>

\* The errors ReadMessage can return in the current state: on a transport
\* closed locally the read fails; ErrReadLimit answers a frame of the peer
\* longer than maxMessageSize.
PossibleReadErrors ==
    IF ConnClosed THEN {"netError"}
    ELSE IF deadline = 0 THEN {"timeout"}
    ELSE (ReadErrors \ {"timeout", "readLimit"})
         \cup (IF wire # <<>> /\ Head(wire).big THEN {"readLimit"} ELSE {})

\* What a failed read leaves in the transport: the oversize frame is consumed.
WireAfter(e) == IF e = "readLimit" THEN Tail(wire) ELSE wire

\* Mutant of RPReadFail: readPump returns on a read error without the
\* deferred c.Close().
RPReadFailNoClose(e) ==
    /\ pc[RP] = "read"
    /\ e \in PossibleReadErrors
    /\ wire' = WireAfter(e)
    /\ pc' = [pc EXCEPT ![RP] = "done"]
    /\ UNCHANGED <<closed, send, sendClosed, onceDone, onceMu, connCloseBy,
                   deadline, tickPending, up, op, last, nextMsg, wpMsg, wpN,
                   teardown, accepted, written, lateWrites, rpMsg, handler,
                   sent, handled>>

\* Mutant of RPReadFail: c.Close() is called only for the errors that are
\* logged as unexpected; on any other read error readPump just returns.
RPReadFailCloseIfUnexpected(e) ==
    /\ pc[RP] = "read"
    /\ e \in PossibleReadErrors
    /\ wire' = WireAfter(e)
    /\ pc' = [pc EXCEPT ![RP] = IF IsUnexpectedCloseError(e) /\ ~onceDone
                                  THEN "once_lock" ELSE "done"]
    /\ UNCHANGED <<closed, send, sendClosed, onceDone, onceMu, connCloseBy,
                   deadline, tickPending, up, op, last, nextMsg, wpMsg, wpN,
                   teardown, accepted, written, lateWrites, rpMsg, handler,
                   sent, handled>>

\* ReadMessage returns err != nil: break, and the deferred c.Close() is
\* entered (Once's fast path).
RPReadFail(e) ==
    /\ pc[RP] = "read"
    /\ e \in PossibleReadErrors
    /\ wire' = WireAfter(e)
    /\ pc' = [pc EXCEPT ![RP] = IF onceDone THEN "done" ELSE "once_lock"]
    /\ UNCHANGED <<closed, send, sendClosed, onceDone, onceMu, connCloseBy,
                   deadline, tickPending, up, op, last, nextMsg, wpMsg, wpN,
                   teardown, accepted, written, lateWrites, rpMsg, handler,
                   sent, handled>>

\* Time passes: TickStep seconds off the read deadline.
Tick ==
    /\ pc[RP] \in {"read", "handle"}
    /\ deadline > 0
    /\ deadline' = IF deadline > TickStep THEN deadline - TickStep ELSE 0
    /\ UNCHANGED <<closed, send, sendClosed, onceDone, onceMu, connCloseBy,
                   tickPending, up, pc, op, last, nextMsg, wpMsg, wpN,
                   teardown, accepted, written, lateWrites, rpMsg,
                   handler, wire, sent, handled>>

\* -------------------------------------------------------------- writePump
WPRunning == pc[WP] \notin {"idle", "start", "done"}

\* A write on the transport is attempted; on a closed transport it is late.
Late(kind) == IF ConnClosed THEN lateWrites \cup {kind} ELSE lateWrites

\* ticker := time.NewTicker(pingPeriod)
WPStart ==
    /\ pc[WP] = "start"
    /\ pc' = [pc EXCEPT ![WP] = "select"]
    /\ UNCHANGED <<closed, send, sendClosed, onceDone, onceMu, connCloseBy,
                   deadline, tickPending, up, op, last, nextMsg, wpMsg,
                   wpN, teardown, accepted, written, lateWrites, rpMsg,
                   handler, wire, sent, handled>>

\* The ticker delivers a tick on ticker.C (capacity 1).
TickerFire ==
    /\ WPRunning
    /\ ~tickPending
    /\ tickPending' = TRUE
    /\ UNCHANGED <<closed, send, sendClosed, onceDone, onceMu, connCloseBy,
                   deadline, up, pc, op, last, nextMsg, wpMsg, wpN,
                   teardown, accepted, written, lateWrites, rpMsg,
                   handler, wire, sent, handled>>

\* case message, ok := <-c.send
WPSelectRecv ==
    /\ pc[WP] = "select"
    /\ RecvReady
    /\ IF Len(send) > 0
         THEN /\ wpMsg' = Head(send)
              /\ send' = Tail(send)
              /\ pc' = [pc EXCEPT ![WP] = "nextwriter"]
         ELSE /\ pc' = [pc EXCEPT ![WP] = "closeframe"]
              /\ UNCHANGED <<wpMsg, send>>
    /\ UNCHANGED <<closed, sendClosed, onceDone, onceMu, connCloseBy, deadline,
                   tickPending, up, op, last, nextMsg, wpN, teardown,
                   accepted, written, lateWrites, rpMsg,
                   handler, wire, sent, handled>>

\* !ok: c.conn.WriteMessage(ws.CloseMessage, []byte{}); return
WPCloseFrame ==
    /\ pc[WP] = "closeframe"
    /\ lateWrites' = Late("close")
    /\ pc' = [pc EXCEPT ![WP] = "defer"]
    /\ UNCHANGED <<closed, send, sendClosed, onceDone, onceMu, connCloseBy,
                   deadline, tickPending, up, op, last, nextMsg, wpMsg,
                   wpN, teardown, accepted, written, rpMsg,
                   handler, wire, sent, handled>>

\* w, err := c.conn.NextWriter(ws.BinaryMessage)
WPNextWriter(ok) ==
    /\ pc[WP] = "nextwriter"
    /\ pc' = [pc EXCEPT ![WP] = IF ok THEN "write" ELSE "defer"]
    /\ wpMsg' = IF ok THEN wpMsg ELSE Nil
    /\ UNCHANGED <<closed, send, sendClosed, onceDone, onceMu, connCloseBy,
                   deadline, tickPending, up, op, last, nextMsg, wpN,
                   teardown, accepted, written, lateWrites, rpMsg,
                   handler, wire, sent, handled>>

\* w.Write(message)
WPWrite ==
    /\ pc[WP] = "write"
    /\ written' = Append(written, wpMsg)
    /\ lateWrites' = Late("data")
    /\ wpMsg' = Nil
    /\ pc' = [pc EXCEPT ![WP] = "rangelen"]
    /\ UNCHANGED <<closed, send, sendClosed, onceDone, onceMu, connCloseBy,
                   deadline, tickPending, up, op, last, nextMsg, wpN,
                   teardown, accepted, rpMsg, handler, wire, sent, handled>>

\* for range len(c.send): the length is evaluated once, when the loop starts
WPRangeLen ==
    /\ pc[WP] = "rangelen"
    /\ wpN' = Len(send)
    /\ pc' = [pc EXCEPT ![WP] = IF Len(send) > 0 THEN "drain" ELSE "wclose"]
    /\ UNCHANGED <<closed, send, sendClosed, onceDone, onceMu, connCloseBy,
                   deadline, tickPending, up, op, last, nextMsg, wpMsg,
                   teardown, accepted, written, lateWrites, rpMsg,
                   handler, wire, sent, handled>>

\* The value <-c.send yields: the head, or the zero value once the channel
\* is closed and empty.
RecvValue == IF Len(send) > 0 THEN Head(send) ELSE Nil

\* One iteration of the range loop: w.Write(<-c.send)
WPDrain ==
    /\ pc[WP] = "drain"
    /\ RecvReady
    /\ written' = Append(written, RecvValue)
    /\ send' = IF Len(send) > 0 THEN Tail(send) ELSE send
    /\ lateWrites' = Late("data")
    /\ wpN' = wpN - 1
    /\ pc' = [pc EXCEPT ![WP] = IF wpN = 1 THEN "wclose" ELSE "drain"]
    /\ UNCHANGED <<closed, sendClosed, onceDone, onceMu, connCloseBy, deadline,
                   tickPending, up, op, last, nextMsg, wpMsg, teardown,
                   accepted, rpMsg,
                   handler, wire, sent, handled>>

\* w.Close(): flushes the frame; it fails on a closed transport.
WPWriterClose(ok) ==
    /\ pc[WP] = "wclose"
    /\ ok => ~ConnClosed
    /\ lateWrites' = Late("data")
    /\ pc' = [pc EXCEPT ![WP] = IF ok THEN "select" ELSE "defer"]
    /\ UNCHANGED <<closed, send, sendClosed, onceDone, onceMu, connCloseBy,
                   deadline, tickPending, up, op, last, nextMsg, wpMsg,
                   wpN, teardown, accepted, written, rpMsg,
                   handler, wire, sent, handled>>

\* case <-ticker.C
WPSelectTick ==
    /\ pc[WP] = "select"
    /\ tickPending
    /\ tickPending' = FALSE
    /\ pc' = [pc EXCEPT ![WP] = "ping"]
    /\ UNCHANGED <<closed, send, sendClosed, onceDone, onceMu, connCloseBy,
                   deadline, up, op, last, nextMsg, wpMsg, wpN, teardown,
                   accepted, written, lateWrites, rpMsg,
                   handler, wire, sent, handled>>

\* Mutant of WPPing: on a failed ping the pump closes the transport itself
\* before returning into the deferred close.
WPPingCloses(ok) ==
    /\ pc[WP] = "ping"
    /\ ok => ~ConnClosed
    /\ lateWrites' = Late("ping")
    /\ pc' = [pc EXCEPT ![WP] = IF ok THEN "select" ELSE "defer"]
    /\ connCloseBy' = IF ok THEN connCloseBy
                       ELSE [connCloseBy EXCEPT !["writePump"] = @ + 1]
    /\ UNCHANGED <<closed, send, sendClosed, onceDone, onceMu,
                   deadline, tickPending, up, op, last, nextMsg, wpMsg,
                   wpN, teardown, accepted, written, rpMsg,
                   handler, wire, sent, handled>>

\* c.conn.WriteMessage(ws.PingMessage, nil)
WPPing(ok) ==
    /\ pc[WP] = "ping"
    /\ ok => ~ConnClosed
    /\ lateWrites' = Late("ping")
    /\ pc' = [pc EXCEPT ![WP] = IF ok THEN "select" ELSE "defer"]
    /\ UNCHANGED <<closed, send, sendClosed, onceDone, onceMu, connCloseBy,
                   deadline, tickPending, up, op, last, nextMsg, wpMsg,
                   wpN, teardown, accepted, written, rpMsg,
                   handler, wire, sent, handled>>

\* case <-c.closed: return
WPSelectClosed ==
    /\ pc[WP] = "select"
    /\ ClosedReady
    /\ pc' = [pc EXCEPT ![WP] = "defer"]
    /\ UNCHANGED <<closed, send, sendClosed, onceDone, onceMu, connCloseBy,
                   deadline, tickPending, up, op, last, nextMsg, wpMsg,
                   wpN, teardown, accepted, written, lateWrites, rpMsg,
                   handler, wire, sent, handled>>

\* Mutant of WPDefer: the deferred function also writes a close frame, after
\* it has closed the transport.
WPDeferWritesCloseFrame ==
    /\ pc[WP] = "defer"
    /\ connCloseBy' = [connCloseBy EXCEPT !["writePump"] = @ + 1]
    /\ lateWrites' = lateWrites \cup {"close"}
    /\ pc' = [pc EXCEPT ![WP] = "done"]
    /\ UNCHANGED <<closed, send, sendClosed, onceDone, onceMu, deadline,
                   tickPending, up, op, last, nextMsg, wpMsg, wpN,
                   teardown, accepted, written, rpMsg,
                   handler, wire, sent, handled>>

\* The deferred function: ticker.Stop(); c.conn.Close()
WPDefer ==
    /\ pc[WP] = "defer"
    /\ connCloseBy' = [connCloseBy EXCEPT !["writePump"] = @ + 1]
    /\ pc' = [pc EXCEPT ![WP] = "done"]
    /\ UNCHANGED <<closed, send, sendClosed, onceDone, onceMu, deadline,
                   tickPending, up, op, last, nextMsg, wpMsg, wpN,
                   teardown, accepted, written, lateWrites, rpMsg,
                   handler, wire, sent, handled>>

\* --------------------------------------------------------------- Upgrade
\* conn, err := upgrader.Upgrade(w, r, nil); err != nil: return nil, err
UpgradeFail ==
    /\ up = "call"
    /\ up' = "failed"
    /\ UNCHANGED <<closed, send, sendClosed, onceDone, onceMu, connCloseBy,
                   deadline, tickPending, pc, op, last, nextMsg, wpMsg, wpN,
                   teardown, accepted, written, lateWrites, rpMsg,
                   handler, wire, sent, handled>>

\* The handshake succeeds, c is built, both defer statements are executed
\* and the return statement is reached: the deferred calls are pending.
UpgradeOK ==
    /\ up = "call"
    /\ up' = "deferred"
    /\ UNCHANGED <<closed, send, sendClosed, onceDone, onceMu, connCloseBy,
                   deadline, tickPending, pc, op, last, nextMsg, wpMsg, wpN,
                   teardown, accepted, written, lateWrites, rpMsg,
                   handler, wire, sent, handled>>

\* defer c.writePump(): deferred last, so it is called first, on Upgrade's
\* own goroutine.
DeferredWritePump ==
    /\ up = "deferred"
    /\ pc[WP] = "idle"
    /\ pc' = [pc EXCEPT ![WP] = "start"]
    /\ UNCHANGED <<closed, send, sendClosed, onceDone, onceMu, connCloseBy,
                   deadline, tickPending, up, op, last, nextMsg, wpMsg, wpN,
                   teardown, accepted, written, lateWrites, rpMsg,
                   handler, wire, sent, handled>>

\* defer c.readPump(): called once the deferred writePump has returned.
DeferredReadPump ==
    /\ up = "deferred"
    /\ pc[WP] = "done"
    /\ pc[RP] = "idle"
    /\ pc' = [pc EXCEPT ![RP] = "start"]
    /\ UNCHANGED <<closed, send, sendClosed, onceDone, onceMu, connCloseBy,
                   deadline, tickPending, up, op, last, nextMsg, wpMsg, wpN,
                   teardown, accepted, written, lateWrites, rpMsg,
                   handler, wire, sent, handled>>

\* Upgrade hands c to its caller once both deferred calls have returned.
UpgradeReturn ==
    /\ up = "deferred"
    /\ pc[WP] = "done"
    /\ pc[RP] = "done"
    /\ up' = "returned"
    /\ UNCHANGED <<closed, send, sendClosed, onceDone, onceMu, connCloseBy,
                   deadline, tickPending, pc, op, last, nextMsg, wpMsg, wpN,
                   teardown, accepted, written, lateWrites, rpMsg,
                   handler, wire, sent, handled>>

\* ------------------------------------------------------------------ Spec
\* The program starts with the call of Upgrade; handler is its argument, nil
\* or a function.  The fields are shown as the composite literal will set
\* them; nothing reads them before it has.
Init ==
    /\ Constructed
    /\ handler \in BOOLEAN
    /\ up = "call"
    /\ pc = [p \in Procs |-> "idle"]

CloseStep(p) ==
    \/ OnceLock(p)
    \/ CloseSignal(p)
    \/ CloseQueue(p)
    \/ CloseConn(p)
    \/ OnceDone(p)

ReadPumpStep ==
    \/ RPStart
    \/ RPReadData
    \/ RPHandle
    \/ RPPong
    \/ \E e \in ReadErrors : RPReadFail(e)

WritePumpStep ==
    \/ WPStart
    \/ WPSelectRecv
    \/ WPCloseFrame
    \/ \E ok \in BOOLEAN : WPNextWriter(ok)
    \/ WPWrite
    \/ WPRangeLen
    \/ WPDrain
    \/ \E ok \in BOOLEAN : WPWriterClose(ok)
    \/ WPSelectTick
    \/ \E ok \in BOOLEAN : WPPing(ok)
    \/ WPSelectClosed
    \/ WPDefer

\* The steps of the program.  writePump runs first, inside Upgrade, with
\* nobody else holding c: its select only ever has the ticker's case ready,
\* and it returns when a ping cannot be written.  readPump runs next, on the
\* transport writePump's deferred function has closed: its first read fails
\* and its deferred c.Close() tears the connection down.  Then Upgrade
\* returns and the callers act on the Connection.
Next ==
    \/ UpgradeFail
    \/ UpgradeOK
    \/ DeferredWritePump
    \/ DeferredReadPump
    \/ UpgradeReturn
    \/ \E f \in Frames, big \in BOOLEAN : PeerSend(f, big)
    \/ WPStart
    \/ TickerFire
    \/ WPSelectTick
    \/ \E ok \in BOOLEAN : WPPing(ok)
    \/ WPDefer
    \/ RPStart
    \/ \E e \in ReadErrors : RPReadFail(e)
    \/ \E p \in Closers : CloseStep(p)
    \/ \E p \in Callers : CloseCall(p)
    \/ \E p \in Callers : IsClosed(p)
    \/ \E p \in Callers : SendBinaryPanic(p)
    \/ \E p \in Callers : SendBinaryClosed(p)

Spec == Init /\ [][Next]_vars

\* Every step of the methods and the pumps, whether or not the program can
\* take it.
NextAll ==
    \/ Next
    \/ \E p \in Callers : SendBinary(p)
    \/ ReadPumpStep
    \/ WritePumpStep
    \/ Tick

SpecAll == Init /\ [][NextAll]_vars

\* Every step SpecAll allows is a step of Next: the steps left out of Next
\* (writePump's message and shutdown cases, a successful read, the handler
\* call, a pong, the deadline's clock, SendBinary's send on the open queue
\* and its default branch) are never enabled in the program.
OnlyProgramSteps == [][Next]_vars

\* ------------------------------------------------------------- fairness
\* A read that must fail: the transport is closed or the deadline has passed.
RPReadForcedFail ==
    /\ ConnClosed \/ deadline = 0
    /\ \E e \in ReadErrors : RPReadFail(e)

\* What the Go scheduler and runtime guarantee: a goroutine that can take its
\* next step takes it (Upgrade's deferred calls and its return, a Close() in
\* progress, the handler call, a read that must fail, writePump), and a
\* select case that is ready again and again is chosen in the end (select
\* picks among the ready cases at random).  Nothing is assumed of the
\* callers, the peer, the ticker or the network: a ping may succeed forever.
Fairness ==
    /\ WF_vars(DeferredWritePump)
    /\ WF_vars(DeferredReadPump)
    /\ WF_vars(UpgradeReturn)
    /\ \A p \in Closers : WF_vars(CloseStep(p))
    /\ WF_vars(RPStart)
    /\ WF_vars(RPHandle)
    /\ WF_vars(RPReadForcedFail)
    /\ WF_vars(WritePumpStep)
    /\ SF_vars(WPSelectRecv)

SpecFair == Init /\ [][Next]_vars /\ Fairness

\* ================================================================ claims
InClose(p) == pc[p] \in {"close_signal", "close_queue", "close_conn", "once_done"}
TornDown == \A s \in {"signal", "queue", "transport"} : teardown[s] = 1
SendBinaryErrors == {"ErrorConnectionClosed", "ErrorBufferFull"}

\* C1 (as claimed): once Close() has run, IsClosed() is true and every
\* SendBinary call returns ErrorConnectionClosed: it does not return nil or
\* ErrorBufferFull, does not panic and leaves the queue as it is.
C1_SendAfterCloseFails ==
    /\ [](onceDone => closed)
    /\ [][\A p \in Callers :
            (onceDone /\ SendBinary(p)) =>
                /\ last' = Returned(p, "SendBinary", "ErrorConnectionClosed")
                /\ pc'[p] = "idle"
                /\ send' = send]_vars

\* C2: whatever the number of concurrent Close() calls (callers, SendBinary's
\* default branch, readPump), each statement of Close()'s function runs at
\* most once, exactly once as soon as one call has returned; no call panics
\* and a call waiting for closeOnce waits only for a call that is running
\* the function.
C2_TeardownOnce ==
    /\ \A s \in {"signal", "queue", "transport"} : teardown[s] <= 1
    /\ onceDone => TornDown
    /\ \A p \in Closers : pc[p] # "panic_close"
    /\ onceMu # "free" => InClose(onceMu)
    /\ \A p \in Closers : InClose(p) => onceMu = p
    /\ last.op = "Close" => (last.ret = "void" /\ onceDone)

\* A caller has called Close() on the Connection Upgrade returned, after
\* another call of a caller: both returned, and each statement of the
\* function has run once, in readPump's call.
C2_Witness ==
    /\ last.op = "Close"
    /\ last.ret = "void"
    /\ last.proc = "c2"
    /\ TornDown
    /\ pc[RP] = "done"
    /\ \A p \in Callers : pc[p] = "idle"

\* C3 (as claimed): Upgrade does not wait for a pump: from the moment its
\* return statement is reached it can return, whatever the pumps are doing.
C3_UpgradeDoesNotWait == up = "deferred" => ENABLED UpgradeReturn

\* What Upgrade does instead: when it returns both pumps have returned and
\* Close() has run.
UpgradeReturnsClosed ==
    up = "returned" =>
        /\ pc[WP] = "done"
        /\ pc[RP] = "done"
        /\ onceDone
        /\ closed
        /\ ConnCloses = 2

\* C6 (as claimed): every SendBinary call ends, without panicking, in one
\* of nil, ErrorConnectionClosed and ErrorBufferFull, the last only with the
\* shutdown initiated; a call inside Close() waits only for a running Close().
C6_SendBinaryOutcomes ==
    /\ \A p \in Callers : pc[p] # "panic_send"
    /\ last.op = "SendBinary" => last.ret \in {"nil"} \cup SendBinaryErrors
    /\ (last.op = "SendBinary" /\ last.ret = "ErrorBufferFull") => closed
    /\ \A p \in Callers :
          (pc[p] = "once_lock" /\ onceMu # "free") => InClose(onceMu)

\* C7: writePump attempts no data, ping or close-frame write on a transport
\* whose close has been executed, by Close() or by its own deferred function.
C7_NoWriteAfterClose == lateWrites = {}

\* The transport has been closed by writePump's deferred function and by
\* Close(), the signal has fired, and no write was attempted on it since.
C7_Witness ==
    /\ connCloseBy["writePump"] = 1
    /\ connCloseBy["Close"] = 1
    /\ closed
    /\ pc[WP] = "done"
    /\ lateWrites = {}

\* C8 (as claimed): the transport's close is executed at most once, counting
\* Close() and the pumps.
C8_TransportClosedOnce == ConnCloses <= 1

\* C8 (amended): the transport's close is executed at most once by Close()
\* and at most once by writePump's deferred function, and by nothing else;
\* once writePump has returned and Close() has run it has been executed twice.
C8_TransportClosedOncePerActor ==
    /\ connCloseBy["Close"] <= 1
    /\ connCloseBy["writePump"] <= 1
    /\ connCloseBy["Close"] = teardown["transport"]
    /\ connCloseBy["writePump"] = (IF pc[WP] = "done" THEN 1 ELSE 0)
    /\ (pc[WP] = "done" /\ onceDone) => ConnCloses = 2

\* Both Close() and writePump's exit have closed the transport.
C8_Witness ==
    /\ connCloseBy["Close"] = 1
    /\ connCloseBy["writePump"] = 1
    /\ pc[WP] = "done"
    /\ onceDone

\* C9: once either pump has returned, Close()'s function runs to its end,
\* IsClosed() is true and the other pump returns too.
C9_PumpExitShutsDown ==
    /\ (pc[WP] = "done") ~> (onceDone /\ closed /\ TornDown /\ pc[RP] = "done")
    /\ (pc[RP] = "done") ~> (onceDone /\ closed /\ TornDown /\ pc[WP] = "done")

\* writePump has returned after a failed ping and has closed the transport;
\* the signal has not fired and readPump is at its first read.
C9_Witness ==
    /\ pc[WP] = "done"
    /\ pc[RP] = "read"
    /\ ~closed
    /\ ConnClosed
    /\ lateWrites = {}

\* C12: once the shutdown signal has fired both pumps return; a pump that
\* has returned takes no further step, and once both have returned the
\* transport, the queue, the signal, the deadline and the ticker are left as
\* they are.
C12_NoPumpLeaked ==
    /\ closed ~> (pc[RP] = "done" /\ pc[WP] = "done")
    /\ [][pc[RP] = "done" =>
              (pc'[RP] = "done" /\ ~ReadPumpStep /\ ~CloseStep(RP) /\ ~Tick)]_vars
    /\ [][pc[WP] = "done" =>
              (pc'[WP] = "done" /\ ~WritePumpStep /\ ~TickerFire)]_vars
    /\ [][(pc[RP] = "done" /\ pc[WP] = "done") =>
              /\ closed' = closed
              /\ send' = send
              /\ sendClosed' = sendClosed
              /\ connCloseBy' = connCloseBy
              /\ teardown' = teardown
              /\ deadline' = deadline
              /\ tickPending' = tickPending
              /\ written' = written
              /\ lateWrites' = lateWrites]_vars

\* The signal has fired in readPump's Close(), which has not closed the
\* queue yet; writePump has returned.
C12_Witness ==
    /\ closed
    /\ ~sendClosed
    /\ pc[RP] = "close_queue"
    /\ pc[WP] = "done"

\* C13: a caller holding the Connection can always call IsClosed() and the
\* call returns at once; it returns true exactly when the shutdown signal has
\* fired, whether or not Close() has closed the queue and the transport yet;
\* it changes nothing of the connection; and the signal, once fired, stays
\* fired, so an answer of true is never followed by false.
C13_IsClosedReportsSignal ==
    /\ [](\A p \in Callers :
             (up = "returned" /\ pc[p] = "idle") => ENABLED IsClosed(p))
    /\ [][\A p \in Callers : IsClosed(p) =>
              /\ last' = Returned(p, "IsClosed", IF closed THEN "true" ELSE "false")
              /\ pc' = pc
              /\ <<closed, send, sendClosed, onceDone, onceMu, connCloseBy,
                   deadline, tickPending, teardown, wpMsg, wpN, nextMsg>>' =
                 <<closed, send, sendClosed, onceDone, onceMu, connCloseBy,
                   deadline, tickPending, teardown, wpMsg, wpN, nextMsg>>]_vars
    /\ [][closed => closed']_vars
    /\ []((last.op = "IsClosed" /\ last.ret = "true") => closed)

\* IsClosed() has returned true to a caller: the signal has fired.
C13_Witness ==
    /\ last.op = "IsClosed"
    /\ last.ret = "true"
    /\ closed
    /\ up = "returned"

\* C14 (as claimed): whenever the transport has been closed, by Close() or by
\* writePump's deferred function, the shutdown signal has fired, and a
\* SendBinary call made in such a state does not return nil.
C14_TransportClosedImpliesSignal ==
    /\ [](ConnClosed => closed)
    /\ [][\A p \in Callers :
            (ConnClosed /\ SendBinary(p)) => last'.ret # "nil"]_vars

\* What holds instead: a transport closed by Close() implies the signal; a
\* transport closed by writePump alone leaves the connection open to callers
\* until readPump's read fails and readPump runs Close().
TransportClosedByWritePumpAlone ==
    (ConnClosed /\ ~closed) =>
        /\ connCloseBy["Close"] = 0
        /\ pc[WP] = "done"
        /\ pc[RP] \in {"idle", "start", "read", "handle", "once_lock",
                      "close_signal"}

\* readPump has left its read loop.
RPLeftLoop == pc[RP] \notin {"idle", "start", "read", "handle"}

\* C15: every read error, logged as unexpected or not, takes readPump out of
\* its loop and into Close(), and the read is not tried again; readPump then
\* returns, and when it has returned each statement of Close()'s function has
\* run exactly once and the signal has fired, with no help from writePump or
\* from a caller.
C15_ReadPumpEndsByClose ==
    /\ [](pc[RP] = "done" => (onceDone /\ closed /\ TornDown))
    /\ [][\A e \in ReadErrors : RPReadFail(e) =>
              /\ pc'[RP] = IF onceDone THEN "done" ELSE "once_lock"
              /\ deadline' = deadline]_vars
    /\ [][RPLeftLoop => RPLeftLoop']_vars
    /\ RPLeftLoop ~> (pc[RP] = "done")

\* readPump has returned after running Close()'s function itself: Upgrade
\* has not returned, so no caller has called anything, and writePump has
\* written nothing but pings.
C15_Witness ==
    /\ pc[RP] = "done"
    /\ TornDown
    /\ closed
    /\ up = "deferred"
    /\ last = NoCall
    /\ written = <<>>

TeardownAt(a, b, c) ==
    teardown = [s \in {"signal", "queue", "transport"} |->
                   IF s = "signal" THEN a ELSE IF s = "queue" THEN b ELSE c]

\* C18: Close()'s function fires the signal, then closes the queue, then
\* closes the transport: in every state, the intermediate states of a running
\* Close() included, a closed queue implies a fired signal and a transport
\* closed by Close() implies a closed queue.
C18_TeardownOrder ==
    /\ sendClosed => closed
    /\ connCloseBy["Close"] > 0 => sendClosed
    /\ \A p \in Closers :
          /\ pc[p] = "close_signal" => TeardownAt(0, 0, 0)
          /\ pc[p] = "close_queue" => TeardownAt(1, 0, 0)
          /\ pc[p] = "close_conn" => TeardownAt(1, 1, 0)
          /\ pc[p] = "once_done" => TeardownAt(1, 1, 1)
    /\ closed = (teardown["signal"] = 1)
    /\ sendClosed = (teardown["queue"] = 1)

\* A running Close() has fired the signal and closed the queue and is about
\* to close the transport.
C18_Witness ==
    /\ \E p \in Closers : pc[p] = "close_conn"
    /\ closed
    /\ sendClosed
    /\ connCloseBy["Close"] = 0

Payloads(q) == [i \in 1..Len(q) |-> q[i].payload]
\* The frame readPump holds between ReadMessage and the handler's return.
InHand == IF pc[RP] = "handle" THEN <<rpMsg>> ELSE <<>>

\* C17 (as claimed): with a handler injected, every data frame the peer has
\* sent on the open connection is passed to the handler, once, with its
\* payload and in order (it is handled, in readPump's hands or still to be
\* read, in that order), and is handled in the end unless the connection
\* shuts down first; and the handler is not called once readPump has left
\* its loop.
C17_EverySentFrameHandled ==
    /\ [](handler => handled \o InHand \o Payloads(wire) = Payloads(sent))
    /\ \A n \in 1..MaxFrames :
          (handler /\ Len(sent) >= n) ~> (Len(handled) >= n \/ closed)
    /\ [][RPLeftLoop => handled' = handled]_vars

====
